---- MODULE Spec2Model ----
(***************************************************************************)
(* A model of the turn loop of halite_bot_2023/bot.py and of the board     *)
(* queries of halite_bot_2023/hlt.py: the toroidal GameMap, walk_set/bfs,  *)
(* the two grids built with it, and move().                                *)
(*                                                                         *)
(* A Square is identified by its coordinates <<x, y>> (hlt.Square compares *)
(* and hashes by x and y only); owner, strength and production are the     *)
(* per-coordinate functions of the current frame.  A dict is a sequence of *)
(* distinct keys in insertion order.                                       *)
(***************************************************************************)
EXTENDS Integers, Sequences, FiniteSets, TLC

VARIABLES
    width, height,          \* GameMap.width, GameMap.height
    owner, strength,        \* GameMap.contents, per frame
    production,             \* GameMap.production, fixed by get_init
    cells_to_border_grid,   \* Grid("cells_to_border_grid").grid
    cells_to_enemy_grid,    \* Grid("cells_to_enemy_grid").grid
    open_set,               \* walk_set's open_set: dict keys in insertion order
    closed_set,             \* walk_set's closed_set
    closed_order,           \* history: the squares of closed_set in closing order
    visits,                 \* history: calls of visit() per square in this run
    pops,                   \* history: open_set.pop() calls in this run
    pc,                     \* position in the turn loop
    turn,                   \* frames read so far
    moves,                  \* the list built at bot.py:211
    branch,                 \* history: the return statement each move came from
    sent,                   \* the triples written by send_frame
    probe                   \* SpecBoard: the last board query and its answers

vars == <<width, height, owner, strength, production, cells_to_border_grid,
          cells_to_enemy_grid, open_set, closed_set, closed_order, visits,
          pops, pc, turn, moves, branch, sent, probe>>

(***************************************************************************)
(* Program constants                                                       *)
(***************************************************************************)
NORTH == 0
EAST == 1
SOUTH == 2
WEST == 3
STILL == 4
ENVIRONMENT_ID == 0
myID == 1
SENTINEL == 9999
GROWTH_FACTOR == 5

(***************************************************************************)
(* Bounds of the model                                                     *)
(***************************************************************************)
MinDim == 3         \* smallest board side
MaxDim == 5         \* largest board side queried in SpecBoard
MaxOwner == 2       \* owner ids 0..MaxOwner
MaxProduction == 1  \* production values 0..MaxProduction
MaxLevel == 2       \* strength values 0, StrengthStep, .., MaxLevel * StrengthStep
StrengthStep == 3
MaxOwnerRuns == 3       \* runs of equal owners in a frame
MaxStrengthRuns == 2    \* runs of equal strengths in a frame
MaxProductionRuns == 2  \* runs of equal productions in the production map
MaxTurns == 1       \* frames read by the turn loop

NoSquare == <<-1, -1>>

Min(a, b) == IF a <= b THEN a ELSE b

RECURSIVE SeqMin(_)
SeqMin(s) == IF Len(s) = 1 THEN s[1] ELSE Min(s[1], SeqMin(Tail(s)))

RECURSIVE SeqSum(_)
SeqSum(s) == IF s = <<>> THEN 0 ELSE s[1] + SeqSum(Tail(s))

Range(s) == {s[i] : i \in 1..Len(s)}

(***************************************************************************)
(* hlt.GameMap                                                             *)
(***************************************************************************)
Squares(w, h) == (0..(w - 1)) \X (0..(h - 1))

Cells == Squares(width, height)

\* GameMap.__iter__: the rows of contents chained, row-major
AllSquares == [i \in 1..(width * height) |-> <<(i - 1) % width, (i - 1) \div width>>]

\* the n == 1 combos of GameMap.neighbors
Combos == << <<0, -1>>, <<1, 0>>, <<0, 1>>, <<-1, 0>>, <<0, 0>> >>

\* a slip in the table: East and West exchanged
TargetDeltasSwapped == << <<0, -1>>, <<-1, 0>>, <<0, 1>>, <<1, 0>>, <<0, 0>> >>

\* the table of GameMap.get_target
TargetDeltas == << <<0, -1>>, <<1, 0>>, <<0, 1>>, <<-1, 0>>, <<0, 0>> >>

Shift(w, h, square, delta) ==
    <<(square[1] + delta[1]) % w, (square[2] + delta[2]) % h>>

\* "if include_self or dx or dy", for include_self = False and for True
CombosWithoutSelf == SelectSeq(Combos, LAMBDA c : FALSE \/ c[1] # 0 \/ c[2] # 0)

CombosWithSelf == SelectSeq(Combos, LAMBDA c : TRUE \/ c[1] # 0 \/ c[2] # 0)

\* GameMap.neighbors(square, 1, include_self) on a w x h map
neighbors_on(w, h, square, include_self) ==
    LET kept == IF include_self THEN CombosWithSelf ELSE CombosWithoutSelf
    IN  [i \in 1..Len(kept) |-> Shift(w, h, square, kept[i])]

\* GameMap.get_target(square, direction) on a w x h map
get_target_on(w, h, square, direction) ==
    Shift(w, h, square, TargetDeltas[direction + 1])

neighbors(square) == neighbors_on(width, height, square, FALSE)

get_target(square, direction) == get_target_on(width, height, square, direction)

(***************************************************************************)
(* hlt.Square properties                                                   *)
(***************************************************************************)
is_mine(square) == owner[square] = myID

is_environment(square) == owner[square] = ENVIRONMENT_ID

is_other_player(square) == owner[square] \notin {ENVIRONMENT_ID, myID}

is_inner_border(square) ==
    /\ is_mine(square)
    /\ \E i \in 1..Len(neighbors(square)) : ~is_mine(neighbors(square)[i])

(***************************************************************************)
(* bot.py: the grids and the open sets they are built from                 *)
(***************************************************************************)
distance_to_border_grid_init(square) ==
    IF is_mine(square) \/ production[square] # 0 THEN SENTINEL ELSE 0

cells_to_enemy_grid_init(square) == SENTINEL

\* Grid.__init__: one entry per square of game_map
Grid(initializer(_)) == [square \in Cells |-> initializer(square)]

\* the sort key of border_grid_set: production of the neutral neighbors
border_key(square) ==
    LET ns == neighbors(square)
        env == SelectSeq(ns, LAMBDA n : is_environment(n))
    IN  SeqSum([i \in 1..Len(env) |-> production[env[i]]])

\* position of a square in the iteration over game_map
IterIndex(square) == square[2] * width + square[1]

\* sorted(.., key=itemgetter(1)) is stable: by key, then by the order in which
\* the comprehension yields the squares
SortsBefore(a, b) ==
    \/ border_key(a) < border_key(b)
    \/ border_key(a) = border_key(b) /\ IterIndex(a) < IterIndex(b)

\* dict(sorted(..)): the inner border squares, lowest key first
border_grid_set ==
    LET inner == {square \in Cells : is_inner_border(square)}
    IN  [rank \in 1..Cardinality(inner) |->
            CHOOSE square \in inner :
                Cardinality({other \in inner : SortsBefore(other, square)}) = rank - 1]

enemy_grid_set == SelectSeq(AllSquares, LAMBDA square : is_other_player(square))

GridMin(grid, ns) == SeqMin([i \in 1..Len(ns) |-> grid[ns[i]]])

\* a slip: every inner border square gets 0
border_grid_value_any_border(square) ==
    IF is_inner_border(square)
    THEN 0
    ELSE Min(cells_to_border_grid[square],
             1 + production[square] + GridMin(cells_to_border_grid, neighbors(square)))

\* the value border_grid_visit writes for square
border_grid_value(square) ==
    IF /\ is_inner_border(square)
       /\ \E i \in 1..4 : /\ is_environment(neighbors(square)[i])
                          /\ production[neighbors(square)[i]] > 0
    THEN 0
    ELSE Min(cells_to_border_grid[square],
             1 + production[square] + GridMin(cells_to_border_grid, neighbors(square)))

\* the squares border_grid_visit returns
border_grid_expand(square) ==
    SelectSeq(neighbors(square), LAMBDA n : is_mine(n))

\* a slip: the production of the square is left out
enemy_grid_value_no_production(square) ==
    IF is_other_player(square)
    THEN 0
    ELSE Min(cells_to_enemy_grid[square],
             1 + GridMin(cells_to_enemy_grid, neighbors(square)))

\* the value enemy_grid_visit writes for square
enemy_grid_value(square) ==
    IF is_other_player(square)
    THEN 0
    ELSE Min(cells_to_enemy_grid[square],
             1 + production[square] + GridMin(cells_to_enemy_grid, neighbors(square)))

\* a slip: the filter on impassable squares is missing
enemy_grid_expand_all(square) == neighbors(square)

\* the squares enemy_grid_visit returns
enemy_grid_expand(square) ==
    SelectSeq(neighbors(square), LAMBDA n : ~(is_environment(n) /\ strength[n] > 0))

(***************************************************************************)
(* bot.py: walk_set                                                        *)
(***************************************************************************)
\* open_set |= {s: None for s in returned}: the keys of returned that are not
\* in open_set go to its end, each once, in the order of their first occurrence
DictMerge(open, returned) ==
    LET fresh == {i \in 1..Len(returned) :
                    /\ returned[i] \notin Range(open)
                    /\ \A j \in 1..(i - 1) : returned[j] # returned[i]}
    IN  open \o [k \in 1..Cardinality(fresh) |->
                    returned[CHOOSE i \in fresh :
                                Cardinality({j \in fresh : j < i}) = k - 1]]

\* bfs's pick_next: next(iter(open_set), None)
pick_next(open) == IF open = <<>> THEN NoSquare ELSE Head(open)

\* a slip: the key is not removed
DictPopNothing(open, current) == open

\* open_set.pop(current)
DictPop(open, current) == SelectSeq(open, LAMBDA k : k # current)

\* a slip: the closed set is not consulted
ShouldVisitAlways(current, closed) == TRUE

\* "if current not in closed_set"
ShouldVisit(current, closed) == current \notin closed

(***************************************************************************)
(* bot.py: heuristic and move                                              *)
(***************************************************************************)
\* heuristic(square) as the fraction <<numerator, denominator>>: the float
\* production / strength of two small integers compares as the fraction does
heuristic(square) ==
    IF owner[square] = 0 /\ strength[square] > 0
    THEN <<production[square], strength[square]>>
    ELSE LET ns == neighbors(square)
             others == SelectSeq(ns, LAMBDA n : owner[n] \notin {0, myID})
         IN  <<SeqSum([i \in 1..Len(others) |-> strength[others[i]]]), 1>>

\* a slip: a later candidate of equal value replaces the best
FracAtMost(a, b) == a[1] * b[2] <= b[1] * a[2]

FracLess(a, b) == a[1] * b[2] < b[1] * a[2]

\* max(candidates, key=heuristic): the first of the largest
RECURSIVE MaxByHeuristic(_, _, _)
MaxByHeuristic(square, directions, best) ==
    IF directions = <<>> THEN best
    ELSE LET d == Head(directions)
         IN  MaxByHeuristic(square, Tail(directions),
                 IF FracLess(heuristic(neighbors(square)[best + 1]),
                             heuristic(neighbors(square)[d + 1]))
                 THEN d ELSE best)

\* the directions move() offers to max(): neighbors not owned by myID
attack_candidates(square) ==
    SelectSeq(<<NORTH, EAST, SOUTH, WEST>>,
              LAMBDA d : owner[neighbors(square)[d + 1]] # myID)

\* the direction max() returns at bot.py:83, or -1 for default=(None, None)
attack_direction(square) ==
    LET cand == attack_candidates(square)
    IN  IF cand = <<>> THEN -1
        ELSE MaxByHeuristic(square, Tail(cand), Head(cand))

\* min((grid[n], d) for d, n in enumerate(neighbors)): tuples compare by value,
\* then by direction
RECURSIVE MinByGrid(_, _, _, _)
MinByGrid(grid, square, directions, best) ==
    IF directions = <<>> THEN best
    ELSE LET d == Head(directions)
             vd == grid[neighbors(square)[d + 1]]
             vb == grid[neighbors(square)[best + 1]]
         IN  MinByGrid(grid, square, Tail(directions),
                 IF vd < vb \/ (vd = vb /\ d < best) THEN d ELSE best)

\* a slip: the largest grid value is taken
RECURSIVE MaxByGrid(_, _, _, _)
MaxByGrid(grid, square, directions, best) ==
    IF directions = <<>> THEN best
    ELSE LET d == Head(directions)
             vd == grid[neighbors(square)[d + 1]]
             vb == grid[neighbors(square)[best + 1]]
         IN  MaxByGrid(grid, square, Tail(directions),
                 IF vd > vb \/ (vd = vb /\ d < best) THEN d ELSE best)

max_direction(grid, square) ==
    MaxByGrid(grid, square, <<EAST, SOUTH, WEST>>, NORTH)

\* a slip: among equal values the latest direction wins
RECURSIVE MinByGridLatest(_, _, _, _)
MinByGridLatest(grid, square, directions, best) ==
    IF directions = <<>> THEN best
    ELSE LET d == Head(directions)
             vd == grid[neighbors(square)[d + 1]]
             vb == grid[neighbors(square)[best + 1]]
         IN  MinByGridLatest(grid, square, Tail(directions),
                 IF vd <= vb THEN d ELSE best)

min_direction_latest(grid, square) ==
    MinByGridLatest(grid, square, <<EAST, SOUTH, WEST>>, NORTH)

min_direction(grid, square) ==
    MinByGrid(grid, square, <<EAST, SOUTH, WEST>>, NORTH)

\* the guard of bot.py:93-97
attack_fires(square) ==
    LET direction == attack_direction(square)
        target == neighbors(square)[direction + 1]
    IN  /\ direction # -1
        /\ strength[target] < strength[square]
        /\ production[target] > 0

\* move(square): <<direction, the line of the return statement taken>>
move(square) ==
    IF strength[square] = 0 THEN <<STILL, 81>>
    ELSE IF attack_fires(square) THEN <<attack_direction(square), 98>>
    ELSE IF strength[square] < production[square] * GROWTH_FACTOR THEN <<STILL, 100>>
    ELSE IF cells_to_enemy_grid[square] < SENTINEL
         THEN <<min_direction(cells_to_enemy_grid, square), 107>>
    ELSE IF ~(\E i \in 1..4 : owner[neighbors(square)[i]] # myID)
         THEN <<min_direction(cells_to_border_grid, square), 115>>
    ELSE <<STILL, 117>>

\* a slip: every square that is not neutral gets a move
moving_squares_not_neutral == SelectSeq(AllSquares, LAMBDA square : owner[square] # 0)

\* the squares the comprehension at bot.py:211 keeps
moving_squares == SelectSeq(AllSquares, LAMBDA square : owner[square] = myID)

\* hlt.translate_cardinal
translate_cardinal(direction) == (direction + 1) % 5

(***************************************************************************)
(* The frames and production maps the game environment sends               *)
(***************************************************************************)
Owners == 0..MaxOwner

Strengths == {level * StrengthStep : level \in 0..MaxLevel}

Productions == 0..MaxProduction

\* square number i (from 0) in the order of iteration over a map of width w
SquareAt(w, i) == <<i % w, i \div w>>

\* the maps on the squares of a w x h board that are made of at most runs runs
\* of one value each, in the order of iteration: cuts are where a run ends
RunMaps(w, h, values, runs) ==
    {[square \in Squares(w, h) |->
        vals[1 + Cardinality({j \in 1..(runs - 1) : cuts[j] <= square[2] * w + square[1]})]] :
        cuts \in [1..(runs - 1) -> 1..(w * h - 1)], vals \in [1..runs -> values]}

\* a frame: the owners and strengths get_frame decodes
Frames(w, h, owner_runs, strength_runs) ==
    {[owner |-> o, strength |-> s] :
        o \in RunMaps(w, h, Owners, owner_runs),
        s \in RunMaps(w, h, Strengths, strength_runs)}

\* the frames read over a production map: strengths vary in runs over a flat
\* production map, and are flat over a production map that varies
FramesOver(p, w, h) ==
    Frames(w, h, MaxOwnerRuns,
           IF \A a, b \in Squares(w, h) : p[a] = p[b] THEN MaxStrengthRuns ELSE 1)

(***************************************************************************)
(* The turn loop of bot.py                                                 *)
(***************************************************************************)
NoGrid == <<>>

\* hlt.get_init and hlt.send_init have run: the map holds the initial frame
Init ==
    /\ width = MinDim
    /\ height = MinDim
    /\ production \in RunMaps(MinDim, MinDim, Productions, MaxProductionRuns)
    /\ owner = [square \in Squares(MinDim, MinDim) |-> ENVIRONMENT_ID]
    /\ strength \in RunMaps(MinDim, MinDim, Strengths, 1)
    /\ cells_to_border_grid = NoGrid
    /\ cells_to_enemy_grid = NoGrid
    /\ open_set = <<>>
    /\ closed_set = {}
    /\ closed_order = <<>>
    /\ visits = <<>>
    /\ pops = 0
    /\ pc = "get_frame"
    /\ turn = 0
    /\ moves = <<>>
    /\ branch = <<>>
    /\ sent = <<>>
    /\ probe = <<>>

\* bot.py:200, GameMap.get_frame: the contents are replaced by the frame read
GetFrame ==
    /\ pc = "get_frame"
    /\ turn < MaxTurns
    /\ turn' = turn + 1
    /\ \E f \in FramesOver(production, width, height) :
        /\ owner' = f.owner
        /\ strength' = f.strength
    /\ pc' = "make_grids"
    /\ UNCHANGED <<width, height, production, cells_to_border_grid, cells_to_enemy_grid,
                   open_set, closed_set, closed_order, visits, pops, moves, branch,
                   sent, probe>>

\* bot.py:202-205: both grids are made, bfs(border_grid_set(), ..) is entered
MakeGrids ==
    /\ pc = "make_grids"
    /\ cells_to_border_grid' = Grid(distance_to_border_grid_init)
    /\ cells_to_enemy_grid' = Grid(cells_to_enemy_grid_init)
    /\ open_set' = border_grid_set
    /\ closed_set' = {}
    /\ closed_order' = <<>>
    /\ visits' = [square \in Cells |-> 0]
    /\ pops' = 0
    /\ pc' = "border_bfs"
    /\ UNCHANGED <<width, height, owner, strength, production, turn, moves, branch,
                   sent, probe>>

\* one iteration of walk_set's loop in bfs(border_grid_set(), border_grid_visit)
BorderStep ==
    /\ pc = "border_bfs"
    /\ open_set # <<>>
    /\ \E current \in {pick_next(open_set)} :
       \E rest \in {DictPop(open_set, current)} :
           /\ pops' = pops + 1
           /\ IF ShouldVisit(current, closed_set)
              THEN /\ closed_set' = closed_set \cup {current}
                   /\ closed_order' = Append(closed_order, current)
                   /\ visits' = [visits EXCEPT ![current] = @ + 1]
                   /\ cells_to_border_grid' =
                        [cells_to_border_grid EXCEPT ![current] = border_grid_value(current)]
                   /\ \E returned \in {border_grid_expand(current)} :
                        open_set' = DictMerge(rest, returned)
              ELSE /\ open_set' = rest
                   /\ UNCHANGED <<closed_set, closed_order, visits, cells_to_border_grid>>
    /\ UNCHANGED <<width, height, owner, strength, production, cells_to_enemy_grid,
                   pc, turn, moves, branch, sent, probe>>

\* bot.py:205-206: the border walk returns, bfs(enemy_grid_set(), ..) is entered
BorderDone ==
    /\ pc = "border_bfs"
    /\ open_set = <<>>
    /\ open_set' = enemy_grid_set
    /\ closed_set' = {}
    /\ closed_order' = <<>>
    /\ visits' = [square \in Cells |-> 0]
    /\ pops' = 0
    /\ pc' = "enemy_bfs"
    /\ UNCHANGED <<width, height, owner, strength, production, cells_to_border_grid,
                   cells_to_enemy_grid, turn, moves, branch, sent, probe>>

\* one iteration of walk_set's loop in bfs(enemy_grid_set(), enemy_grid_visit)
EnemyStep ==
    /\ pc = "enemy_bfs"
    /\ open_set # <<>>
    /\ \E current \in {pick_next(open_set)} :
       \E rest \in {DictPop(open_set, current)} :
           /\ pops' = pops + 1
           /\ IF ShouldVisit(current, closed_set)
              THEN /\ closed_set' = closed_set \cup {current}
                   /\ closed_order' = Append(closed_order, current)
                   /\ visits' = [visits EXCEPT ![current] = @ + 1]
                   /\ cells_to_enemy_grid' =
                        [cells_to_enemy_grid EXCEPT ![current] = enemy_grid_value(current)]
                   /\ \E returned \in {enemy_grid_expand(current)} :
                        open_set' = DictMerge(rest, returned)
              ELSE /\ open_set' = rest
                   /\ UNCHANGED <<closed_set, closed_order, visits, cells_to_enemy_grid>>
    /\ UNCHANGED <<width, height, owner, strength, production, cells_to_border_grid,
                   pc, turn, moves, branch, sent, probe>>

\* bot.py:206-211: the enemy walk returns, the moves are computed
ComputeMoves ==
    /\ pc = "enemy_bfs"
    /\ open_set = <<>>
    /\ moves' = [i \in 1..Len(moving_squares) |->
                    <<moving_squares[i], move(moving_squares[i])[1]>>]
    /\ branch' = [i \in 1..Len(moving_squares) |-> move(moving_squares[i])[2]]
    /\ pc' = "send_frame"
    /\ UNCHANGED <<width, height, owner, strength, production, cells_to_border_grid,
                   cells_to_enemy_grid, open_set, closed_set, closed_order, visits,
                   pops, turn, sent, probe>>

\* bot.py:212, hlt.send_frame: one "x y direction" triple per move
SendFrame ==
    /\ pc = "send_frame"
    /\ sent' = [i \in 1..Len(moves) |->
                   <<moves[i][1][1], moves[i][1][2], translate_cardinal(moves[i][2])>>]
    /\ pc' = "get_frame"
    /\ UNCHANGED <<width, height, owner, strength, production, cells_to_border_grid,
                   cells_to_enemy_grid, open_set, closed_set, closed_order, visits,
                   pops, turn, moves, branch, probe>>

Next ==
    \/ GetFrame
    \/ MakeGrids
    \/ BorderStep
    \/ BorderDone
    \/ EnemyStep
    \/ ComputeMoves
    \/ SendFrame

Spec == Init /\ [][Next]_vars

\* walk_set's loop is one thread that nothing suspends: while a walk has a
\* step to take, it takes it
FairSpec == Spec /\ WF_vars(BorderStep \/ EnemyStep)

(***************************************************************************)
(* The board queries of hlt.py on their own, on boards of every size       *)
(***************************************************************************)
InitBoard ==
    /\ width \in MinDim..MaxDim
    /\ height \in MinDim..MaxDim
    /\ production = [square \in Squares(width, height) |-> 0]
    /\ owner = [square \in Squares(width, height) |-> ENVIRONMENT_ID]
    /\ strength = [square \in Squares(width, height) |-> 0]
    /\ cells_to_border_grid = NoGrid
    /\ cells_to_enemy_grid = NoGrid
    /\ open_set = <<>>
    /\ closed_set = {}
    /\ closed_order = <<>>
    /\ visits = <<>>
    /\ pops = 0
    /\ pc = "board"
    /\ turn = 0
    /\ moves = <<>>
    /\ branch = <<>>
    /\ sent = <<>>
    /\ probe = <<>>

\* list(game_map.neighbors(square)) and game_map.get_target(square, d) for each d
QueryBoard ==
    /\ pc = "board"
    /\ \E square \in Cells :
        probe' = [square |-> square,
                  neighbors |-> neighbors(square),
                  targets |-> [d \in NORTH..STILL |-> get_target(square, d)]]
    /\ UNCHANGED <<width, height, owner, strength, production, cells_to_border_grid,
                   cells_to_enemy_grid, open_set, closed_set, closed_order, visits,
                   pops, pc, turn, moves, branch, sent>>

NextBoard == QueryBoard

SpecBoard == InitBoard /\ [][NextBoard]_vars

(***************************************************************************)
(* C9: on a board with width >= 3 and height >= 3, neighbors(square) is     *)
(* exactly 4 pairwise distinct squares, none of them the square, in the    *)
(* order North, East, South, West with wraparound; get_target(square, i)   *)
(* is the i-th of them for i in 0..3, and get_target(square, STILL) is the *)
(* square itself.                                                          *)
(***************************************************************************)
Wrap(v, n) == IF v < 0 THEN v + n ELSE IF v >= n THEN v - n ELSE v

\* C9: what neighbors and get_target answered for the square asked about
C9_NeighborsAndTargets ==
    probe # <<>> =>
        LET x == probe.square[1]
            y == probe.square[2]
            ns == probe.neighbors
        IN  /\ width >= 3 /\ height >= 3
            /\ Len(ns) = 4
            /\ \A i, j \in 1..4 : i # j => ns[i] # ns[j]
            /\ \A i \in 1..4 : ns[i] # probe.square /\ ns[i] \in Cells
            /\ ns[1] = <<x, Wrap(y - 1, height)>>
            /\ ns[2] = <<Wrap(x + 1, width), y>>
            /\ ns[3] = <<x, Wrap(y + 1, height)>>
            /\ ns[4] = <<Wrap(x - 1, width), y>>
            /\ \A i \in 0..3 : probe.targets[i] = ns[i + 1]
            /\ probe.targets[STILL] = probe.square

\* a query on a corner square, where North and West wrap around
C9_Witness ==
    /\ probe # <<>>
    /\ probe.square = <<0, 0>>
    /\ probe.neighbors[1] = <<0, height - 1>>
    /\ probe.targets[WEST] = <<width - 1, 0>>

(***************************************************************************)
(* The walks: what the claims about walk_set refer to                      *)
(***************************************************************************)
InWalk == pc \in {"border_bfs", "enemy_bfs"}

WalkEnded == InWalk /\ open_set = <<>>

\* the seeds of the walk in progress and the squares its visit returns
WalkSeeds ==
    IF pc = "border_bfs" THEN {square \in Cells : is_inner_border(square)}
    ELSE {square \in Cells : is_other_player(square)}

WalkReturned(square) ==
    IF pc = "border_bfs" THEN Range(border_grid_expand(square))
    ELSE Range(enemy_grid_expand(square))

\* the squares reachable from found through the squares visit returns
RECURSIVE ReachableFrom(_)
ReachableFrom(found) ==
    LET more == found \cup UNION {WalkReturned(square) : square \in found}
    IN  IF more = found THEN found ELSE ReachableFrom(more)

(***************************************************************************)
(* C1: in a run of walk_set, visit is called at most once per square, even *)
(* when the square is put back into the open set after it was closed; when *)
(* the run ends, every square reachable from the seeds through the squares *)
(* visit returns has been closed exactly once, and no other square has.    *)
(***************************************************************************)
\* C1: no square is visited twice, and a walk that ended closed exactly the
\* reachable squares
C1_VisitedOnce ==
    InWalk =>
        /\ \A square \in Cells : visits[square] <= 1
        /\ closed_set = {square \in Cells : visits[square] = 1}
        /\ WalkEnded => closed_set = ReachableFrom(WalkSeeds)

\* a closed square is back in the open set, about to be popped again
C1_Witness ==
    /\ pc = "enemy_bfs"
    /\ open_set # <<>>
    /\ Head(open_set) \in closed_set
    /\ visits[Head(open_set)] = 1

(***************************************************************************)
(* C2: both walks terminate, after a number of open_set.pop() calls that   *)
(* is bounded in the number of squares.                                    *)
(***************************************************************************)
\* C2 as claimed: a walk pops at most as many times as the board has squares
C2_PopsWithinBoardSize == InWalk => pops <= width * height

\* C2 as amended: every walk ends; at most width * height pops call visit, and
\* each visit puts back at most 4 squares, so there are at most
\* 5 * width * height pops
C2_Terminates ==
    /\ [](InWalk => /\ pops <= 5 * width * height
                    /\ Cardinality(closed_set) <= width * height
                    /\ pops <= Cardinality(WalkSeeds) + 4 * Cardinality(closed_set))
    /\ InWalk ~> WalkEnded

\* a walk has ended after more pops than the board has squares
C2_Witness == WalkEnded /\ pops > width * height

(***************************************************************************)
(* The move policy as the claims state it                                  *)
(***************************************************************************)
MovesReady == pc = "send_frame"

\* the cardinal neighbor of square in direction d
Toward(square, d) ==
    CASE d = NORTH -> <<square[1], Wrap(square[2] - 1, height)>>
      [] d = EAST -> <<Wrap(square[1] + 1, width), square[2]>>
      [] d = SOUTH -> <<square[1], Wrap(square[2] + 1, height)>>
      [] d = WEST -> <<Wrap(square[1] - 1, width), square[2]>>

Cardinals == {NORTH, EAST, SOUTH, WEST}

OpponentStrength(square) == IF is_other_player(square) THEN strength[square] ELSE 0

\* the attack value of a neighbor, as a fraction <<numerator, denominator>>
AttackValue(n) ==
    IF is_environment(n) /\ strength[n] > 0
    THEN <<production[n], strength[n]>>
    ELSE <<OpponentStrength(Toward(n, NORTH)) + OpponentStrength(Toward(n, EAST))
           + OpponentStrength(Toward(n, SOUTH)) + OpponentStrength(Toward(n, WEST)), 1>>

ValueAtMost(a, b) == a[1] * b[2] <= b[1] * a[2]

AttackTargets(square) == {d \in Cardinals : ~is_mine(Toward(square, d))}

\* the direction of the candidate target: the largest attack value, the
\* earliest direction among equals
BestAttack(square) ==
    CHOOSE d \in AttackTargets(square) :
        \A e \in AttackTargets(square) :
            /\ ValueAtMost(AttackValue(Toward(square, e)), AttackValue(Toward(square, d)))
            /\ ValueAtMost(AttackValue(Toward(square, d)), AttackValue(Toward(square, e)))
                  => d <= e

AttackCondition(square) ==
    /\ AttackTargets(square) # {}
    /\ strength[Toward(square, BestAttack(square))] < strength[square]
    /\ production[Toward(square, BestAttack(square))] > 0

\* the direction of the neighbor with the least grid value, the earliest
\* direction among equals
LeastToward(grid, square) ==
    CHOOSE d \in Cardinals :
        \A e \in Cardinals :
            /\ grid[Toward(square, d)] <= grid[Toward(square, e)]
            /\ grid[Toward(square, d)] = grid[Toward(square, e)] => d <= e

\* Growth, Advance, Reinforce in this order
RemainingRules(square) ==
    IF strength[square] < 5 * production[square] THEN STILL
    ELSE IF cells_to_enemy_grid[square] # SENTINEL
         THEN LeastToward(cells_to_enemy_grid, square)
    ELSE IF ~is_inner_border(square)
         THEN LeastToward(cells_to_border_grid, square)
    ELSE STILL

(***************************************************************************)
(* C3: the Attack rule.  The candidate target of a square of mine is the   *)
(* neighbor not owned by me with the largest attack value, the earliest in *)
(* the order North, East, South, West among equals; move() returns its     *)
(* direction exactly when it exists, is weaker than the square and has     *)
(* positive production.                                                    *)
(***************************************************************************)
\* C3 as claimed: the move of a square of mine is the candidate's direction
\* exactly when the candidate exists, is weaker than the square and has
\* positive production
C3_AttackExactlyWhen ==
    MovesReady =>
        \A i \in 1..Len(moves) :
            (/\ AttackTargets(moves[i][1]) # {}
             /\ moves[i][2] = BestAttack(moves[i][1]))
            <=> AttackCondition(moves[i][1])

\* C3 as amended: move() returns at the Attack rule (bot.py:98) exactly when
\* the candidate exists, is weaker than the square and has positive
\* production, and then with the candidate's direction
C3_AttackRule ==
    MovesReady =>
        \A i \in 1..Len(moves) :
            /\ branch[i] = 98 <=> AttackCondition(moves[i][1])
            /\ AttackCondition(moves[i][1]) => moves[i][2] = BestAttack(moves[i][1])

\* a lone square of mine, stronger than its four equal neutral neighbors of
\* positive production, moves North
C3_Witness ==
    /\ MovesReady
    /\ Len(moves) = 1
    /\ \A d \in Cardinals :
          /\ is_environment(Toward(moves[1][1], d))
          /\ strength[Toward(moves[1][1], d)] = StrengthStep
          /\ production[Toward(moves[1][1], d)] = 1
    /\ strength[moves[1][1]] > StrengthStep
    /\ moves[1][2] = NORTH
    /\ branch[1] = 98

(***************************************************************************)
(* C4: for a square of mine on which the Attack rule does not fire, the    *)
(* move is decided by Growth, then Advance, then Reinforce, the first that *)
(* applies; ties among neighbors go to the earliest of North, East, South, *)
(* West.                                                                   *)
(***************************************************************************)
\* C4 as claimed: where the Attack rule does not fire, the move is the one
\* Growth, Advance and Reinforce decide
C4_RemainingRules ==
    MovesReady =>
        \A i \in 1..Len(moves) :
            ~AttackCondition(moves[i][1]) => moves[i][2] = RemainingRules(moves[i][1])

\* C4 as amended: where the Attack rule does not fire, a square of strength 0
\* stays, and Growth, Advance and Reinforce decide the move of the others
C4_ZeroStaysThenRules ==
    MovesReady =>
        \A i \in 1..Len(moves) :
            ~AttackCondition(moves[i][1]) =>
                moves[i][2] = IF strength[moves[i][1]] = 0 THEN STILL
                              ELSE RemainingRules(moves[i][1])

\* one frame in which a square advances and another of strength 0 stays where
\* the three rules alone would move it
C4_Witness ==
    /\ MovesReady
    /\ \E i \in 1..Len(moves) : branch[i] = 107 /\ moves[i][2] # STILL
    /\ \E i \in 1..Len(moves) :
          /\ branch[i] = 81
          /\ RemainingRules(moves[i][1]) # STILL

(***************************************************************************)
(* C5: the list given to send_frame holds exactly one Move for each square *)
(* of the frame that is mine and none for any other square; so does the    *)
(* line that is sent.                                                      *)
(***************************************************************************)
MovesOf(square) == {i \in 1..Len(moves) : moves[i][1] = square}

SentFor(square) == {i \in 1..Len(sent) : sent[i][1] = square[1] /\ sent[i][2] = square[2]}

\* C5: one Move, and one triple on the line sent, for each square of mine
C5_OneMovePerOwnedSquare ==
    /\ MovesReady =>
          \A square \in Cells :
              Cardinality(MovesOf(square)) = IF owner[square] = myID THEN 1 ELSE 0
    /\ (pc = "get_frame" /\ turn > 0) =>
          \A square \in Cells :
              Cardinality(SentFor(square)) = IF owner[square] = myID THEN 1 ELSE 0

\* a frame with squares of mine, of an opponent and neutral ones has been answered
C5_Witness ==
    /\ pc = "get_frame"
    /\ turn > 0
    /\ Len(sent) > 1
    /\ \E square \in Cells : is_other_player(square)
    /\ \E square \in Cells : is_environment(square)

(***************************************************************************)
(* The grids as the claims state them                                      *)
(***************************************************************************)
SetMin(S) == CHOOSE m \in S : \A x \in S : m <= x

\* the squares closed before the j-th square closed in the walk in progress
ClosedEarlier(j) == {closed_order[k] : k \in 1..(j - 1)}

CardinalNeighbors(square) == {Toward(square, d) : d \in Cardinals}

\* an inward-border square next to a neutral square of positive production
AtProductiveBorder(square) ==
    /\ is_inner_border(square)
    /\ \E n \in CardinalNeighbors(square) : is_environment(n) /\ production[n] > 0

Impassable(square) == is_environment(square) /\ strength[square] > 0

(***************************************************************************)
(* C6: the value the frontier-distance walk gives a square it closes.      *)
(***************************************************************************)
\* C6 as claimed: 0 at the productive border; otherwise 1 + production + the
\* least value of the neighbors of mine closed earlier, or the sentinel when
\* there is none; the other neighbors do not count
C6_OnlyClosedOwnNeighbors ==
    pc = "border_bfs" =>
        \A j \in 1..Len(closed_order) :
            LET square == closed_order[j]
                own == {n \in CardinalNeighbors(square) :
                            is_mine(n) /\ n \in ClosedEarlier(j)}
            IN  cells_to_border_grid[square] =
                    IF AtProductiveBorder(square) THEN 0
                    ELSE IF own = {} THEN SENTINEL
                    ELSE 1 + production[square]
                           + SetMin({cells_to_border_grid[n] : n \in own})

\* what a neighbor contributes to the minimum when a square is closed as the
\* j-th: its value if it is mine and closed, 0 if it is not mine and has no
\* production, the sentinel otherwise
BorderContribution(n, j) ==
    IF is_mine(n)
    THEN IF n \in ClosedEarlier(j) THEN cells_to_border_grid[n] ELSE SENTINEL
    ELSE IF production[n] = 0 THEN 0 ELSE SENTINEL

\* C6 as amended: 0 at the productive border; otherwise 1 + production + the
\* least contribution of the four neighbors, and never more than the sentinel
C6_AllNeighborsCount ==
    pc = "border_bfs" =>
        \A j \in 1..Len(closed_order) :
            LET square == closed_order[j]
                least == SetMin({BorderContribution(n, j) : n \in CardinalNeighbors(square)})
            IN  cells_to_border_grid[square] =
                    IF AtProductiveBorder(square) THEN 0
                    ELSE IF 1 + production[square] + least < SENTINEL
                         THEN 1 + production[square] + least
                    ELSE SENTINEL

\* the walk has ended with a square at the productive border, a square valued
\* through a closed neighbor of mine and a square valued through a neighbor
\* that is not mine
C6_Witness ==
    /\ pc = "border_bfs"
    /\ open_set = <<>>
    /\ \E j \in 1..Len(closed_order) : AtProductiveBorder(closed_order[j])
    /\ \E j \in 1..Len(closed_order) :
          /\ ~AtProductiveBorder(closed_order[j])
          /\ cells_to_border_grid[closed_order[j]] < SENTINEL
          /\ \A n \in CardinalNeighbors(closed_order[j]) : is_mine(n)
    /\ \E j \in 1..Len(closed_order) :
          /\ ~AtProductiveBorder(closed_order[j])
          /\ \E n \in CardinalNeighbors(closed_order[j]) :
                /\ ~is_mine(n)
                /\ cells_to_border_grid[closed_order[j]] = 1 + production[closed_order[j]]

(***************************************************************************)
(* C7: after the opponent-distance walk every square of an opponent has    *)
(* value 0; an impassable square (neutral, positive strength) is never put *)
(* into the open set and holds the sentinel during the walk and after it.  *)
(***************************************************************************)
EnemyGridMade ==
    \/ pc \in {"border_bfs", "enemy_bfs", "send_frame"}
    \/ pc = "get_frame" /\ turn > 0

EnemyWalkOver ==
    \/ pc = "enemy_bfs" /\ open_set = <<>>
    \/ pc = "send_frame"
    \/ pc = "get_frame" /\ turn > 0

\* C7: impassable squares hold the sentinel and are in neither the open set
\* nor the closed set; once the walk is over the squares of opponents hold 0
C7_OpponentsZeroImpassableSentinel ==
    /\ EnemyGridMade =>
          \A square \in Cells :
              Impassable(square) => cells_to_enemy_grid[square] = SENTINEL
    /\ pc = "enemy_bfs" =>
          \A square \in Cells :
              Impassable(square) =>
                  square \notin Range(open_set) /\ square \notin closed_set
    /\ EnemyWalkOver =>
          \A square \in Cells :
              is_other_player(square) => cells_to_enemy_grid[square] = 0

\* the walk is over on a frame where an impassable square lies next to an
\* opponent and a square that is not an opponent's got a value
C7_Witness ==
    /\ pc = "send_frame"
    /\ \E square \in Cells :
          /\ Impassable(square)
          /\ \E n \in CardinalNeighbors(square) : is_other_player(n)
    /\ \E square \in Cells :
          ~is_other_player(square) /\ cells_to_enemy_grid[square] < SENTINEL

(***************************************************************************)
(* C8: a square closed by the opponent-distance walk that is not an        *)
(* opponent's gets 1 + its production + the least value of its neighbors   *)
(* closed earlier, and the value is not changed afterwards.                *)
(***************************************************************************)
C8_ValueWhenClosed ==
    pc = "enemy_bfs" =>
        \A j \in 1..Len(closed_order) :
            LET square == closed_order[j]
                earlier == CardinalNeighbors(square) \cap ClosedEarlier(j)
            IN  ~is_other_player(square) =>
                    /\ earlier # {}
                    /\ cells_to_enemy_grid[square] =
                          1 + production[square]
                            + SetMin({cells_to_enemy_grid[n] : n \in earlier})

C8_ValueKept ==
    (pc \in {"enemy_bfs", "send_frame", "get_frame"} /\ pc' # "make_grids") =>
        \A square \in closed_set :
            cells_to_enemy_grid'[square] = cells_to_enemy_grid[square]

RECURSIVE LeadsToOpponent(_, _)
LeadsToOpponent(square, steps) ==
    IF cells_to_enemy_grid[square] = 0 THEN is_other_player(square)
    ELSE /\ steps > 0
         /\ \E next \in {Toward(square, LeastToward(cells_to_enemy_grid, square))} :
                LeadsToOpponent(next, steps - 1)

\* C10: an advancing square moves toward a neighbor of smaller value that is
\* not at the sentinel and not impassable, and the least neighbors lead from
\* the square to a square of an opponent
C10_AdvanceDescends ==
    MovesReady =>
        \A i \in 1..Len(moves) :
            branch[i] = 107 =>
                LET square == moves[i][1]
                    target == Toward(square, moves[i][2])
                IN  /\ moves[i][2] \in Cardinals
                    /\ cells_to_enemy_grid[target] < cells_to_enemy_grid[square]
                    /\ cells_to_enemy_grid[target] # SENTINEL
                    /\ ~Impassable(target)
                    /\ LeadsToOpponent(square, width * height)

\* a square of mine two steps away from the opponents advances, next to an
\* impassable square
C10_Witness ==
    /\ MovesReady
    /\ \E i \in 1..Len(moves) :
          /\ branch[i] = 107
          /\ cells_to_enemy_grid[Toward(moves[i][1], moves[i][2])] > 0
          /\ \E n \in CardinalNeighbors(moves[i][1]) : Impassable(n)

====
